---- MODULE Spec2Model ----
(***************************************************************************)
(* Leave Ledger of LeaveManagement-MCP-Server (src/src/main.py): the       *)
(* module-level lists `employees` and `leave_histories`, the tools         *)
(* register_employee, apply_for_leave and cancel_leaves that mutate them,  *)
(* and the resource get_leave_histories that reads them.                   *)
(*                                                                         *)
(* Text is modelled by what the code does with it:                        *)
(*   - identifiers and purposes are sequences of one-character strings,   *)
(*     so that int(), str(), rjust() and lower() are computed;            *)
(*   - a date text is a record naming its format and the instant it       *)
(*     denotes; dateutil's parse and strftime("%Y-%m-%d") are computed    *)
(*     on it, the canonical text being the date-only format;              *)
(*   - time is counted in ticks, TicksPerDay ticks to a day, and          *)
(*     datetime.today() is the variable `now`.                            *)
(***************************************************************************)
EXTENDS Integers, Sequences, FiniteSets, TLC

VARIABLES
    employees,        \* main.employees: sequence of [id, name, balance]
    leave_histories,  \* main.leave_histories: sequence of [employee_id, purpose, leave_date]
    now,              \* datetime.today(), in ticks
    result,           \* what the last tool call returned (or the exception it raised)
    applications,     \* number of successful apply_for_leave calls so far (bounded)
    trip,             \* history: a successful apply_for_leave and the cancel_leaves that followed it
    threads,          \* the tool calls in progress when the host serves calls on threads
    granted           \* history: granted[i] is the number of dates of the successful
                      \* apply_for_leave calls of employees[i] so far

vars == <<employees, leave_histories, now, result, applications, trip, threads, granted>>

(***************************************************************************)
(* Bounds of the model and constants of the program.                       *)
(***************************************************************************)
MaxEmployees == 5
MaxApplications == 2
MaxTicks == 1
TicksPerDay == 2
Today == 20
BulkDays == 19
MaxThreads == 2
Horizon == 2

Entitlement == 20
IdWidth == 4

(***************************************************************************)
(* Strings.                                                                *)
(***************************************************************************)
Digits == <<"0", "1", "2", "3", "4", "5", "6", "7", "8", "9">>

DigitValue(c) == (CHOOSE i \in 1..10 : Digits[i] = c) - 1

\* int(s) for a string of decimal digits
RECURSIVE int(_)
int(s) ==
    IF Len(s) = 0 THEN 0
    ELSE 10 * int(SubSeq(s, 1, Len(s) - 1)) + DigitValue(s[Len(s)])

\* str(n) for n >= 0
RECURSIVE str(_)
str(n) ==
    IF n < 10 THEN <<Digits[n + 1]>>
    ELSE str(n \div 10) \o <<Digits[(n % 10) + 1]>>

\* s.rjust(width, "0")
RECURSIVE rjust(_, _)
rjust(s, width) ==
    IF Len(s) >= width THEN s ELSE rjust(<<"0">> \o s, width)

UpperCase == <<"A", "B", "C", "D", "E", "F", "G", "H", "I", "J", "K", "L", "M",
               "N", "O", "P", "Q", "R", "S", "T", "U", "V", "W", "X", "Y", "Z">>
LowerCase == <<"a", "b", "c", "d", "e", "f", "g", "h", "i", "j", "k", "l", "m",
               "n", "o", "p", "q", "r", "s", "t", "u", "v", "w", "x", "y", "z">>

lower_char(c) ==
    IF \E i \in 1..26 : UpperCase[i] = c
    THEN LowerCase[CHOOSE i \in 1..26 : UpperCase[i] = c]
    ELSE c

\* s.lower()
lower(s) == [i \in 1..Len(s) |-> lower_char(s[i])]

(***************************************************************************)
(* class LeaveType                                                         *)
(***************************************************************************)
SICK == <<"s", "i", "c", "k">>
VACATION == <<"v", "a", "c", "a", "t", "i", "o", "n">>
MATERNITY == <<"m", "a", "t", "e", "r", "n", "i", "t", "y">>
PATERNITY == <<"p", "a", "t", "e", "r", "n", "i", "t", "y">>
OTHERS == <<"o", "t", "h", "e", "r", "s">>

LeaveType == {SICK, VACATION, MATERNITY, PATERNITY, OTHERS}

(***************************************************************************)
(* Dates.  A date text is one of                                           *)
(*   [fmt |-> "ymd",  day]       "2025-06-01"                              *)
(*   [fmt |-> "long", day, tod]  "January 26, 2030, 10:30:25 AM"           *)
(*   [fmt |-> "utc",  day, tod]  "2030-01-26T10:30:25Z"                    *)
(*   [fmt |-> "junk"]            text dateutil cannot read                 *)
(* and a datetime is [day, tod, aware].                                    *)
(***************************************************************************)
Ymd(d) == [fmt |-> "ymd", day |-> d]
Long(d, t) == [fmt |-> "long", day |-> d, tod |-> t]
Utc(d, t) == [fmt |-> "utc", day |-> d, tod |-> t]
Junk == [fmt |-> "junk"]

\* dateutil.parser.parse(text, fuzzy=False) raises ValueError
ParseRaises(text) == text.fmt = "junk"

\* dateutil.parser.parse(text, fuzzy=False), when it does not raise
parse(text) ==
    CASE text.fmt = "ymd" -> [day |-> text.day, tod |-> 0, aware |-> FALSE]
      [] text.fmt = "long" -> [day |-> text.day, tod |-> text.tod, aware |-> FALSE]
      [] text.fmt = "utc" -> [day |-> text.day, tod |-> text.tod, aware |-> TRUE]

\* date_obj.strftime("%Y-%m-%d")
strftime(date_obj) == Ymd(date_obj.day)

\* format_date(leave_date), when parse does not raise
format_date(leave_date) == strftime(parse(leave_date))

\* (leave_date_obj - datetime.today()).days: timedelta.days is the floor
date_diff(leave_date_obj, today) ==
    ((leave_date_obj.day * TicksPerDay + leave_date_obj.tod) - today) \div TicksPerDay

\* is_valid_leave_date raises TypeError: an aware datetime minus the naive today()
ValidRaises(leave_date_str) ==
    /\ ~ParseRaises(leave_date_str)
    /\ parse(leave_date_str).aware

\* as is_valid_leave_date, with `except ValueError: return True`
is_valid_leave_date_lenient(leave_date_str, today) ==
    IF ParseRaises(leave_date_str) THEN TRUE
    ELSE date_diff(parse(leave_date_str), today) > 0

\* is_valid_leave_date(leave_date_str), when it does not raise
is_valid_leave_date(leave_date_str, today) ==
    IF ParseRaises(leave_date_str) THEN FALSE
    ELSE date_diff(parse(leave_date_str), today) > 0

(***************************************************************************)
(* The ledger: seed data and the helpers of the tools.                     *)
(***************************************************************************)
Id0001 == <<"0", "0", "0", "1">>
Id0002 == <<"0", "0", "0", "2">>
Id0003 == <<"0", "0", "0", "3">>
Id0004 == <<"0", "0", "0", "4">>

\* employees = [...], with 2025-05-31 as day 0
SeedEmployees ==
    << [id |-> Id0001, name |-> "Wale", balance |-> 20],
       [id |-> Id0002, name |-> "Seun", balance |-> 20],
       [id |-> Id0003, name |-> "Kayode", balance |-> 20],
       [id |-> Id0004, name |-> "Adeola", balance |-> 20] >>

\* leave_histories = [...]
SeedHistories ==
    << [employee_id |-> Id0001, purpose |-> SICK, leave_date |-> Ymd(1)],
       [employee_id |-> Id0001, purpose |-> VACATION, leave_date |-> Ymd(5)],
       [employee_id |-> Id0001, purpose |-> SICK, leave_date |-> Ymd(10)],
       [employee_id |-> Id0001, purpose |-> SICK, leave_date |-> Ymd(16)],
       [employee_id |-> Id0002, purpose |-> OTHERS, leave_date |-> Ymd(12)] >>

\* as add_leave_to_history, storing the date text as given
add_leave_to_history_raw(histories, employee_id, purpose, leave_date) ==
    Append(histories,
           [employee_id |-> employee_id,
            purpose |-> purpose,
            leave_date |-> leave_date])

\* as add_leave_to_history, with employee_id and purpose in each other's place
add_leave_to_history_swapped(histories, employee_id, purpose, leave_date) ==
    Append(histories,
           [employee_id |-> purpose,
            purpose |-> employee_id,
            leave_date |-> format_date(leave_date)])

\* add_leave_to_history, on the list it appends to
add_leave_to_history(histories, employee_id, purpose, leave_date) ==
    Append(histories,
           [employee_id |-> employee_id,
            purpose |-> purpose,
            leave_date |-> format_date(leave_date)])

\* as new_employee, skipping an identifier
new_employee_skip(last_employee, name) ==
    [id |-> rjust(str(int(last_employee.id) + 2), IdWidth),
     name |-> name,
     balance |-> Entitlement]

\* as new_employee, without the increment
new_employee_same(last_employee, name) ==
    [id |-> rjust(str(int(last_employee.id)), IdWidth),
     name |-> name,
     balance |-> Entitlement]

\* register_employee: the employee it builds from the last one of the list
new_employee(last_employee, name) ==
    [id |-> rjust(str(int(last_employee.id) + 1), IdWidth),
     name |-> name,
     balance |-> Entitlement]

\* apply_for_leave: invalid_dates = [dt for dt in leave_dates if not is_valid_leave_date(dt)]
invalid_dates(leave_dates, today) ==
    SelectSeq(leave_dates, LAMBDA dt : ~is_valid_leave_date(dt, today))

\* as coerce_purpose, without the coercion
coerce_purpose_kept(purpose) == purpose

\* apply_for_leave: if purpose.lower() not in {...}: purpose = LeaveType.OTHERS.value
coerce_purpose(purpose) ==
    IF lower(purpose) \notin {SICK, VACATION, MATERNITY, PATERNITY}
    THEN OTHERS
    ELSE purpose

\* apply_for_leave: the indices i with employees[i]["id"] == employee_id
matches(emps, employee_id) ==
    {i \in 1..Len(emps) : emps[i].id = employee_id}

\* as insufficient, comparing with the entitlement instead of the balance
insufficient_entitlement(leave_count, balance) == leave_count > Entitlement

\* as insufficient, rejecting a request for the whole balance
insufficient_early(leave_count, balance) == leave_count >= balance

\* apply_for_leave: if leave_count > employee["balance"]
insufficient(leave_count, balance) == leave_count > balance

\* as new_balance, taking one day for the request whatever its number of dates
new_balance_per_request(balance, leave_count) == balance - 1

\* apply_for_leave: new_balance = employee["balance"] - leave_count
new_balance(balance, leave_count) == balance - leave_count

\* apply_for_leave: the loop over leave_dates inside try/except ValueError;
\* the records appended before a ValueError stay in the list
RECURSIVE add_leaves(_, _, _, _)
add_leaves(histories, employee_id, purpose, leave_dates) ==
    IF leave_dates = <<>> THEN [histories |-> histories, raised |-> FALSE]
    ELSE IF ParseRaises(Head(leave_dates))
         THEN [histories |-> histories, raised |-> TRUE]
         ELSE add_leaves(add_leave_to_history(histories, employee_id, purpose,
                                              Head(leave_dates)),
                         employee_id, purpose, Tail(leave_dates))

\* apply_for_leave(employee_id, leave_dates, purpose): the lists and the
\* return value it leaves
Apply(emps, histories, today, employee_id, leave_dates, purpose) ==
    LET same == [employees |-> emps, leave_histories |-> histories]
        invalid == invalid_dates(leave_dates, today)
        stored == coerce_purpose(purpose)
        found == matches(emps, employee_id)
        idx == CHOOSE i \in found : \A j \in found : i <= j
        leave_count == Len(leave_dates)
        added == add_leaves(histories, emps[idx].id, stored, leave_dates)
    IN  IF \E i \in 1..Len(leave_dates) : ValidRaises(leave_dates[i])
        THEN same @@ [result |-> [op |-> "apply_for_leave", kind |-> "raised",
                                  exception |-> "TypeError"]]
        ELSE IF Len(invalid) > 0
        THEN same @@ [result |-> [op |-> "apply_for_leave", kind |-> "invalid_dates",
                                  dates |-> invalid]]
        ELSE IF found = {}
        THEN same @@ [result |-> [op |-> "apply_for_leave", kind |-> "not_found",
                                  id |-> employee_id]]
        ELSE IF insufficient(leave_count, emps[idx].balance)
        THEN same @@ [result |-> [op |-> "apply_for_leave", kind |-> "insufficient",
                                  balance |-> emps[idx].balance]]
        ELSE IF added.raised
        THEN [employees |-> emps, leave_histories |-> added.histories,
              result |-> [op |-> "apply_for_leave", kind |-> "error"]]
        ELSE [employees |->
                  [emps EXCEPT ![idx].balance =
                       new_balance(emps[idx].balance, leave_count)],
              leave_histories |-> added.histories,
              result |-> [op |-> "apply_for_leave", kind |-> "success",
                          dates |-> leave_dates,
                          balance |-> new_balance(emps[idx].balance, leave_count)]]

\* cancel_leaves: formatted_dates = [format_date(dt) for dt in leave_dates]
formatted_dates(leave_dates) ==
    [i \in 1..Len(leave_dates) |-> format_date(leave_dates[i])]

\* as found_histories, without the test of the employee
found_histories_any_employee(histories, employee_id, formatted) ==
    SelectSeq(histories,
              LAMBDA history :
                  \E i \in 1..Len(formatted) : history.leave_date = formatted[i])

\* cancel_leaves: found_histories = [history for history in leave_histories if ...]
found_histories(histories, employee_id, formatted) ==
    SelectSeq(histories,
              LAMBDA history :
                  /\ history.employee_id = lower(employee_id)
                  /\ \E i \in 1..Len(formatted) : history.leave_date = formatted[i])

\* list.remove(x): drops the first element equal to x
remove(list, x) ==
    LET first == CHOOSE i \in 1..Len(list) :
                     /\ list[i] = x
                     /\ \A j \in 1..(i - 1) : list[j] # x
    IN  SubSeq(list, 1, first - 1) \o SubSeq(list, first + 1, Len(list))

\* as remove_all, leaving the loop after the first record
remove_all_first(histories, found) == remove(histories, Head(found))

\* cancel_leaves: for history in found_histories: leave_histories.remove(history)
RECURSIVE remove_all(_, _)
remove_all(histories, found) ==
    IF found = <<>> THEN histories
    ELSE remove_all(remove(histories, Head(found)), Tail(found))

\* as Cancel, removing the records found before the dates are validated
Cancel_remove_first(histories, today, employee_id, leave_dates) ==
    LET formatted == formatted_dates(leave_dates)
        bad == {i \in 1..Len(leave_dates) : ~is_valid_leave_date(formatted[i], today)}
        first_bad == CHOOSE i \in bad : \A j \in bad : i <= j
        found == found_histories(histories, employee_id, formatted)
    IN  IF \E i \in 1..Len(leave_dates) : ParseRaises(leave_dates[i])
        THEN [leave_histories |-> histories,
              result |-> [op |-> "cancel_leaves", kind |-> "raised",
                          exception |-> "ValueError"]]
        ELSE IF bad # {}
        THEN [leave_histories |-> remove_all(histories, found),
              result |-> [op |-> "cancel_leaves", kind |-> "invalid_date",
                          date |-> leave_dates[first_bad]]]
        ELSE IF Len(found) = 0
        THEN [leave_histories |-> histories,
              result |-> [op |-> "cancel_leaves", kind |-> "no_leave"]]
        ELSE [leave_histories |-> remove_all(histories, found),
              result |-> [op |-> "cancel_leaves", kind |-> "cancelled"]]

\* cancel_leaves(employee_id, leave_dates): the list and the return value it leaves
Cancel(histories, today, employee_id, leave_dates) ==
    LET formatted == formatted_dates(leave_dates)
        bad == {i \in 1..Len(leave_dates) : ~is_valid_leave_date(formatted[i], today)}
        first_bad == CHOOSE i \in bad : \A j \in bad : i <= j
        found == found_histories(histories, employee_id, formatted)
    IN  IF \E i \in 1..Len(leave_dates) : ParseRaises(leave_dates[i])
        THEN [leave_histories |-> histories,
              result |-> [op |-> "cancel_leaves", kind |-> "raised",
                          exception |-> "ValueError"]]
        ELSE IF bad # {}
        THEN [leave_histories |-> histories,
              result |-> [op |-> "cancel_leaves", kind |-> "invalid_date",
                          date |-> leave_dates[first_bad]]]
        ELSE IF Len(found) = 0
        THEN [leave_histories |-> histories,
              result |-> [op |-> "cancel_leaves", kind |-> "no_leave"]]
        ELSE [leave_histories |-> remove_all(histories, found),
              result |-> [op |-> "cancel_leaves", kind |-> "cancelled"]]

(***************************************************************************)
(* The inputs the tools are called with.                                   *)
(***************************************************************************)
Id0005 == <<"0", "0", "0", "5">>
Id0400 == <<"0", "4", "0", "0">>

\* a seed employee, the first identifier registration hands out, and one
\* that is never registered
EmployeeIds == {Id0001, Id0005, Id0400}

Names == {"", "Bolatito"}

UpperSick == <<"S", "I", "C", "K">>
FreeText == <<"m", "y", " ", "p", "e", "r", "s", "o", "n", "a", "l", " ",
              "r", "e", "a", "s", "o", "n">>

Purposes == {SICK, UpperSick, FreeText}

\* midday of the day after the clock's first day, in the long format
Midday == Long(Today + 1, 1)

\* a run of consecutive days, from the second day after the clock's first day
Bulk == [i \in 1..BulkDays |-> Ymd(Today + 1 + i)]

\* the date of a seed record, past when the clock starts
PastDay == Ymd(16)

DateLists ==
    { <<Midday>>, Bulk, <<Midday, Junk>>, <<PastDay, Midday>>,
      <<Utc(Today + 2, 0)>> }

\* the arguments of apply_for_leave: employee 0001 with every date list,
\* every purpose for a one-day request of employee 0001, and a one-day
\* request of each other employee
Requests ==
    ({Id0001} \X DateLists \X {SICK})
        \cup ({Id0001} \X {<<Midday>>} \X Purposes)
        \cup (EmployeeIds \X {<<Midday>>} \X {SICK})

\* the arguments of cancel_leaves: employee 0001 with every date list, and
\* the one-day list for each other employee
Cancellations ==
    ({Id0001} \X DateLists) \cup (EmployeeIds \X {<<Midday>>})

\* the employees whose history is read: a seed employee and one that is
\* never registered
Lookups == {Id0001, Id0400}

(***************************************************************************)
(* The state machine.                                                      *)
(***************************************************************************)
NoTrip == [stage |-> "none"]

\* the threads a host may serve tool calls on
Threads == 1..MaxThreads

\* no tool call is in progress on any thread
NoThreads == [t \in Threads |-> [pc |-> "idle"]]

\* history: how many records of the list are of this employee and on the
\* calendar day of one of these date texts
RecordsOn(histories, employee_id, leave_dates) ==
    Cardinality({k \in 1..Len(histories) :
                    /\ histories[k].employee_id = employee_id
                    /\ \E i \in 1..Len(leave_dates) :
                           histories[k].leave_date = Ymd(leave_dates[i].day)})

Init ==
    /\ employees = SeedEmployees
    /\ leave_histories = SeedHistories
    /\ now = Today * TicksPerDay
    /\ result = [op |-> "none", kind |-> "none"]
    /\ applications = 0
    /\ trip = NoTrip
    /\ threads = NoThreads
    /\ granted = [i \in 1..Len(SeedEmployees) |-> 0]

\* @mcp.tool() register_employee(name)
register_employee(name) ==
    /\ Len(employees) < MaxEmployees
    /\ LET created == new_employee(employees[Len(employees)], name)
       IN  /\ employees' = Append(employees, created)
           /\ result' = [op |-> "register_employee", kind |-> "registered",
                         id |-> created.id, balance |-> created.balance]
    /\ trip' = NoTrip
    /\ granted' = Append(granted, 0)
    /\ UNCHANGED <<leave_histories, now, applications, threads>>

\* @mcp.tool() apply_for_leave(employee_id, leave_dates, purpose)
apply_for_leave(employee_id, leave_dates, purpose) ==
    \E out \in {Apply(employees, leave_histories, now, employee_id, leave_dates, purpose)} :
        LET success == out.result.kind = "success"
        IN  /\ success => applications < MaxApplications
            /\ employees' = out.employees
            /\ leave_histories' = out.leave_histories
            /\ result' = out.result
            /\ applications' = IF success THEN applications + 1 ELSE applications
            /\ trip' = IF success
                       THEN [stage |-> "applied", employee_id |-> employee_id,
                             leave_dates |-> leave_dates,
                             size_before |-> Len(leave_histories),
                             found_before |->
                                 RecordsOn(leave_histories, employee_id, leave_dates)]
                       ELSE NoTrip
            /\ granted' = IF success
                          THEN [i \in 1..Len(granted) |->
                                   IF employees[i].id = employee_id
                                   THEN granted[i] + Len(leave_dates)
                                   ELSE granted[i]]
                          ELSE granted
            /\ UNCHANGED <<now, threads>>

\* as cancel_leaves, crediting the employee one day for each record removed
cancel_leaves_crediting(employee_id, leave_dates) ==
    \E out \in {Cancel(leave_histories, now, employee_id, leave_dates)} :
        /\ leave_histories' = out.leave_histories
        /\ result' = out.result
        /\ trip' = NoTrip
        /\ employees' =
               [i \in 1..Len(employees) |->
                   IF employees[i].id = employee_id
                   THEN [employees[i] EXCEPT !.balance =
                            @ + Len(leave_histories) - Len(out.leave_histories)]
                   ELSE employees[i]]
        /\ UNCHANGED <<now, applications, threads, granted>>

\* @mcp.tool() cancel_leaves(employee_id, leave_dates)
cancel_leaves(employee_id, leave_dates) ==
    \E out \in {Cancel(leave_histories, now, employee_id, leave_dates)} :
        /\ leave_histories' = out.leave_histories
        /\ result' = out.result
        /\ trip' = IF /\ trip.stage = "applied"
                      /\ trip.employee_id = employee_id
                      /\ trip.leave_dates = leave_dates
                   THEN [trip EXCEPT !.stage = "cancelled"]
                   ELSE NoTrip
        /\ UNCHANGED <<employees, now, applications, threads, granted>>

\* LeaveHistory(**history): pydantic accepts a purpose that is a LeaveType value
LeaveHistory(history) == history.purpose \in LeaveType

\* @mcp.resource("leave://histories/{employee_id}") get_leave_histories(employee_id)
get_leave_histories(employee_id) ==
    /\ LET found_employee ==
               SelectSeq(employees, LAMBDA employee : employee.id = employee_id)
           employee_histories ==
               SelectSeq(leave_histories,
                         LAMBDA history : history.employee_id = employee_id)
       IN  result' =
               IF Len(found_employee) = 0
               THEN [op |-> "get_leave_histories", kind |-> "raised",
                     exception |-> "IndexError"]
               ELSE IF \E i \in 1..Len(employee_histories) :
                          ~LeaveHistory(employee_histories[i])
               THEN [op |-> "get_leave_histories", kind |-> "raised",
                     exception |-> "ValidationError"]
               ELSE [op |-> "get_leave_histories", kind |-> "histories",
                     name |-> found_employee[1].name,
                     balance |-> found_employee[1].balance,
                     histories |-> employee_histories]
    /\ trip' = NoTrip
    /\ UNCHANGED <<employees, leave_histories, now, applications, threads, granted>>

\* the clock moves on between calls
Tick ==
    /\ now < Today * TicksPerDay + MaxTicks
    /\ now' = now + 1
    /\ UNCHANGED <<employees, leave_histories, result, applications, trip, threads, granted>>

Next ==
    \/ \E name \in Names : register_employee(name)
    \/ \E r \in Requests : apply_for_leave(r[1], r[2], r[3])
    \/ \E c \in Cancellations : cancel_leaves(c[1], c[2])
    \/ \E employee_id \in Lookups : get_leave_histories(employee_id)
    \/ Tick

Spec == Init /\ [][Next]_vars

(***************************************************************************)
(* The tools when the host serves calls on threads.  main.py takes no      *)
(* lock, so a thread may be pre-empted between any two statements of a     *)
(* tool; each action below is one statement (or one loop iteration) of     *)
(* apply_for_leave or cancel_leaves, with the tool's locals kept in        *)
(* threads[t].                                                             *)
(***************************************************************************)
\* two days in one request
Pair == <<Midday, Ymd(Today + 2)>>

\* the calls two clients make at the same time, all for employee 0001
ConcurrentCalls ==
    {[op |-> "apply_for_leave", employee_id |-> Id0001, leave_dates |-> d,
      purpose |-> SICK] : d \in {<<Midday>>, Pair}}
    \cup
    {[op |-> "cancel_leaves", employee_id |-> Id0001, leave_dates |-> d,
      purpose |-> <<>>] : d \in {<<Midday>>, Pair}}

\* the lists the concurrent calls find: those of startup (after no
\* application), or those left by one application for the run of days
Served(applied) ==
    IF applied = 0
    THEN [employees |-> SeedEmployees, leave_histories |-> SeedHistories]
    ELSE Apply(SeedEmployees, SeedHistories, Today * TicksPerDay, Id0001, Bulk, SICK)

\* a thread entering the tool, its locals not yet assigned
Started(call) ==
    [pc |-> IF call.op = "apply_for_leave" THEN "validate" ELSE "format",
     call |-> call, purpose |-> call.purpose, idx |-> 0, k |-> 1,
     new_balance |-> 0, found_histories |-> <<>>, outcome |-> "none"]

\* the tool returns (or raises) on thread t
Return(t, outcome) ==
    [threads EXCEPT ![t].pc = "done", ![t].outcome = outcome]

InitConcurrent ==
    /\ applications \in {0, 1}
    /\ employees = Served(applications).employees
    /\ leave_histories = Served(applications).leave_histories
    /\ now = Today * TicksPerDay
    /\ result = [op |-> "none", kind |-> "none"]
    /\ trip = NoTrip
    /\ threads \in [Threads -> {Started(call) : call \in ConcurrentCalls}]
    /\ granted = [i \in 1..Len(SeedEmployees) |->
                      IF i = 1 THEN applications * BulkDays ELSE 0]

\* apply_for_leave: the date validation and the purpose coercion
apply_validate(t) ==
    /\ threads[t].pc = "validate"
    /\ LET leave_dates == threads[t].call.leave_dates
       IN  threads' =
               IF \E i \in 1..Len(leave_dates) : ValidRaises(leave_dates[i])
               THEN Return(t, "raised")
               ELSE IF Len(invalid_dates(leave_dates, now)) > 0
               THEN Return(t, "invalid_dates")
               ELSE [threads EXCEPT ![t].pc = "lookup",
                                    ![t].purpose = coerce_purpose(threads[t].call.purpose)]
    /\ UNCHANGED <<employees, leave_histories, now, result, applications, trip, granted>>

\* apply_for_leave: matches = [...]; idx, employee = matches[0]
apply_lookup(t) ==
    /\ threads[t].pc = "lookup"
    /\ LET found == matches(employees, threads[t].call.employee_id)
       IN  threads' =
               IF found = {}
               THEN Return(t, "not_found")
               ELSE [threads EXCEPT ![t].pc = "check",
                                    ![t].idx = CHOOSE i \in found : \A j \in found : i <= j]
    /\ UNCHANGED <<employees, leave_histories, now, result, applications, trip, granted>>

\* apply_for_leave: if leave_count > employee["balance"]
apply_check(t) ==
    /\ threads[t].pc = "check"
    /\ LET leave_count == Len(threads[t].call.leave_dates)
       IN  threads' =
               IF insufficient(leave_count, employees[threads[t].idx].balance)
               THEN Return(t, "insufficient")
               ELSE [threads EXCEPT ![t].pc =
                        IF leave_count = 0 THEN "read_balance" ELSE "append"]
    /\ UNCHANGED <<employees, leave_histories, now, result, applications, trip, granted>>

\* apply_for_leave: one iteration of the loop calling add_leave_to_history
apply_append(t) ==
    /\ threads[t].pc = "append"
    /\ LET leave_dates == threads[t].call.leave_dates
           leave_dt == leave_dates[threads[t].k]
       IN  IF ParseRaises(leave_dt)
           THEN /\ threads' = Return(t, "error")
                /\ UNCHANGED leave_histories
           ELSE /\ leave_histories' =
                       add_leave_to_history(leave_histories,
                                            employees[threads[t].idx].id,
                                            threads[t].purpose, leave_dt)
                /\ threads' =
                       [threads EXCEPT ![t].k = @ + 1,
                                       ![t].pc = IF threads[t].k = Len(leave_dates)
                                                 THEN "read_balance" ELSE "append"]
    /\ UNCHANGED <<employees, now, result, applications, trip, granted>>

\* apply_for_leave: new_balance = employee["balance"] - leave_count
apply_read_balance(t) ==
    /\ threads[t].pc = "read_balance"
    /\ threads' =
           [threads EXCEPT ![t].pc = "write_balance",
                           ![t].new_balance =
                               new_balance(employees[threads[t].idx].balance,
                                           Len(threads[t].call.leave_dates))]
    /\ UNCHANGED <<employees, leave_histories, now, result, applications, trip, granted>>

\* apply_for_leave: employees[idx]["balance"] = new_balance
apply_write_balance(t) ==
    /\ threads[t].pc = "write_balance"
    /\ employees' = [employees EXCEPT ![threads[t].idx].balance = threads[t].new_balance]
    /\ threads' = Return(t, "success")
    /\ UNCHANGED <<leave_histories, now, result, applications, trip, granted>>

\* cancel_leaves: formatted_dates, valid_dates and the invalid-date return
cancel_validate(t) ==
    /\ threads[t].pc = "format"
    /\ LET leave_dates == threads[t].call.leave_dates
       IN  threads' =
               IF \E i \in 1..Len(leave_dates) : ParseRaises(leave_dates[i])
               THEN Return(t, "raised")
               ELSE IF \E i \in 1..Len(leave_dates) :
                          ~is_valid_leave_date(format_date(leave_dates[i]), now)
               THEN Return(t, "invalid_date")
               ELSE [threads EXCEPT ![t].pc = "find"]
    /\ UNCHANGED <<employees, leave_histories, now, result, applications, trip, granted>>

\* cancel_leaves: found_histories = [...] and the no-leave return
cancel_find(t) ==
    /\ threads[t].pc = "find"
    /\ LET found == found_histories(leave_histories, threads[t].call.employee_id,
                                    formatted_dates(threads[t].call.leave_dates))
       IN  threads' =
               IF Len(found) = 0
               THEN Return(t, "no_leave")
               ELSE [threads EXCEPT ![t].pc = "remove", ![t].found_histories = found]
    /\ UNCHANGED <<employees, leave_histories, now, result, applications, trip, granted>>

\* cancel_leaves: one iteration of the loop calling leave_histories.remove,
\* which raises ValueError when the record is no longer in the list
cancel_remove(t) ==
    /\ threads[t].pc = "remove"
    /\ LET history == Head(threads[t].found_histories)
           left == Tail(threads[t].found_histories)
       IN  IF \E i \in 1..Len(leave_histories) : leave_histories[i] = history
           THEN /\ leave_histories' = remove(leave_histories, history)
                /\ threads' =
                       IF left = <<>>
                       THEN [Return(t, "cancelled") EXCEPT ![t].found_histories = left]
                       ELSE [threads EXCEPT ![t].found_histories = left]
           ELSE /\ threads' = Return(t, "raised")
                /\ UNCHANGED leave_histories
    /\ UNCHANGED <<employees, now, result, applications, trip, granted>>

NextConcurrent ==
    \/ \E t \in Threads : apply_validate(t)
    \/ \E t \in Threads : apply_lookup(t)
    \/ \E t \in Threads : apply_check(t)
    \/ \E t \in Threads : apply_append(t)
    \/ \E t \in Threads : apply_read_balance(t)
    \/ \E t \in Threads : apply_write_balance(t)
    \/ \E t \in Threads : cancel_validate(t)
    \/ \E t \in Threads : cancel_find(t)
    \/ \E t \in Threads : cancel_remove(t)

SpecConcurrent == InitConcurrent /\ [][NextConcurrent]_vars

(***************************************************************************)
(* is_valid_leave_date on its own: the clock and the date text are drawn   *)
(* from the days around the clock's first day, and the one action is the   *)
(* call.                                                                   *)
(***************************************************************************)
\* the readings of datetime.today()
Clocks == {Today * TicksPerDay + i : i \in 0..(Horizon * TicksPerDay - 1)}

\* the date texts handed to is_valid_leave_date
Texts ==
    LET days == (Today - 1)..(Today + Horizon)
        tods == 0..(TicksPerDay - 1)
    IN  {Junk} \cup {Ymd(d) : d \in days}
               \cup {Long(d, t) : d \in days, t \in tods}
               \cup {Utc(d, t) : d \in days, t \in tods}

InitValidator ==
    /\ employees = SeedEmployees
    /\ leave_histories = SeedHistories
    /\ now \in Clocks
    /\ \E text \in Texts :
           result = [op |-> "is_valid_leave_date", kind |-> "called", text |-> text]
    /\ applications = 0
    /\ trip = NoTrip
    /\ threads = NoThreads
    /\ granted = [i \in 1..Len(SeedEmployees) |-> 0]

\* is_valid_leave_date(leave_date_str) returns, or raises
call_is_valid_leave_date ==
    /\ result.kind = "called"
    /\ result' =
           IF ValidRaises(result.text)
           THEN [op |-> "is_valid_leave_date", kind |-> "raised",
                 text |-> result.text, exception |-> "TypeError"]
           ELSE [op |-> "is_valid_leave_date", kind |-> "returned",
                 text |-> result.text,
                 value |-> is_valid_leave_date(result.text, now)]
    /\ UNCHANGED <<employees, leave_histories, now, applications, trip, threads, granted>>

NextValidator == call_is_valid_leave_date

SpecValidator == InitValidator /\ [][NextValidator]_vars

(***************************************************************************)
(* Properties.                                                             *)
(***************************************************************************)
Balance(employee_id) ==
    LET i == CHOOSE j \in 1..Len(employees) : employees[j].id = employee_id
    IN  employees[i].balance

Registered(employee_id) == \E i \in 1..Len(employees) : employees[i].id = employee_id

RecordsOf(employee_id) ==
    Cardinality({k \in 1..Len(leave_histories) :
                    leave_histories[k].employee_id = employee_id})

\* a date text that reads as a date and lies a whole day or more after now
FutureDate(text) ==
    /\ text.fmt \in {"ymd", "long"}
    /\ text.day * TicksPerDay + (IF text.fmt = "long" THEN text.tod ELSE 0)
           >= now + TicksPerDay

AllFuture(leave_dates) == \A i \in 1..Len(leave_dates) : FutureDate(leave_dates[i])

\* the purpose is sick, vacation, maternity or paternity in some spelling of case
Recognised(purpose) == lower(purpose) \in {SICK, VACATION, MATERNITY, PATERNITY}

\* C1: in every reachable state every employee's balance is a non-negative
\* integer.
C1_BalanceNonNegative ==
    \A i \in 1..Len(employees) : employees[i].balance \in Nat

\* an employee has used the whole entitlement, by a request that was granted
C1_Witness ==
    /\ result.op = "apply_for_leave"
    /\ result.kind = "success"
    /\ \E i \in 1..Len(employees) : employees[i].balance = 0

\* C2: in every reachable state every employee's balance equals the
\* entitlement minus the number of log records that carry the employee's id.
C2_BalanceMatchesLog ==
    \A i \in 1..Len(employees) :
        employees[i].balance = Entitlement - RecordsOf(employees[i].id)

C3_Step(employee_id, leave_dates, purpose) ==
    LET n == Len(leave_dates)
        size == Len(leave_histories)
    IN  (result'.kind = "success" /\ apply_for_leave(employee_id, leave_dates, purpose))
        => /\ Len(employees') = Len(employees)
           /\ \A i \in 1..Len(employees) :
                  employees'[i] =
                      IF employees[i].id = employee_id
                      THEN [employees[i] EXCEPT !.balance = employees[i].balance - n]
                      ELSE employees[i]
           /\ Len(leave_histories') = size + n
           /\ SubSeq(leave_histories', 1, size) = leave_histories
           /\ \A k \in 1..n :
                  leave_histories'[size + k] =
                      [employee_id |-> employee_id,
                       purpose |-> IF Recognised(purpose) THEN purpose ELSE OTHERS,
                       leave_date |-> Ymd(leave_dates[k].day)]

\* C3: a successful apply_for_leave with N dates lowers that employee's
\* balance by exactly N and appends exactly N records at the end of the log,
\* in the order of the request, each with the employee's id, the purpose
\* (coerced to "others" when not recognised) and the canonical form of its
\* date; earlier records and the other employees are unchanged.
C3_ApplyEffect ==
    [][\A r \in Requests : C3_Step(r[1], r[2], r[3])]_vars

\* the run of days was granted: the log ends with its last day
C3_Witness ==
    /\ result.op = "apply_for_leave"
    /\ result.kind = "success"
    /\ Len(result.dates) = BulkDays
    /\ leave_histories[Len(leave_histories)].leave_date = Ymd(Today + 1 + BulkDays)

\* the step is a call of apply_for_leave (the clock stands still during a call)
ApplyStep == result'.op = "apply_for_leave" /\ now' = now

\* C4: an apply_for_leave call that does not succeed leaves the registry and
\* the log exactly as they were.
C4_FailedApplyChangesNothing ==
    [][(ApplyStep /\ result'.kind # "success")
       => UNCHANGED <<employees, leave_histories>>]_vars

\* a request whose first date is good and whose second is unreadable was
\* turned down
C4_Witness ==
    /\ result.op = "apply_for_leave"
    /\ result.kind = "invalid_dates"
    /\ result.dates = <<Junk>>

C5_Step(employee_id, leave_dates, purpose) ==
    LET n == Len(leave_dates)
    IN  (/\ ApplyStep
         /\ Registered(employee_id)
         /\ AllFuture(leave_dates)
         /\ apply_for_leave(employee_id, leave_dates, purpose))
        => /\ (result'.kind = "success") <=> (n <= Balance(employee_id))
           /\ n = Balance(employee_id) => Balance(employee_id)' = 0
           /\ n > Balance(employee_id)
                  => /\ result'.kind = "insufficient"
                     /\ result'.balance = Balance(employee_id)
                     /\ UNCHANGED <<employees, leave_histories>>

\* C5: for a registered employee and dates that are all valid and future,
\* apply_for_leave succeeds exactly when the number of dates is at most the
\* balance; a request for the whole balance leaves 0, and a request for more
\* is turned down whole, reporting the current balance.
C5_BalanceBoundary ==
    [][\A r \in Requests : C5_Step(r[1], r[2], r[3])]_vars

\* with the balance at 0 after two grants, a further request was turned
\* down, reporting 0
C5_Witness ==
    /\ result.op = "apply_for_leave"
    /\ result.kind = "insufficient"
    /\ result.balance = 0
    /\ applications = 2

\* C6: every record appended by a successful apply_for_leave whose purpose is
\* not sick, vacation, maternity or paternity (in any case) has the purpose
\* "others".
C6_UnknownPurposeIsOthers ==
    [][\A r \in Requests :
          (/\ result'.kind = "success"
           /\ ~Recognised(r[3])
           /\ apply_for_leave(r[1], r[2], r[3]))
          => \A k \in (Len(leave_histories) + 1)..Len(leave_histories') :
                 leave_histories'[k].purpose = OTHERS]_vars

\* a granted request left a record with purpose "others" at the end of the log
C6_Witness ==
    /\ result.op = "apply_for_leave"
    /\ result.kind = "success"
    /\ leave_histories[Len(leave_histories)].purpose = OTHERS

\* C7: in every reachable state the purpose of every log record is one of
\* sick, vacation, maternity, paternity, others.
C7_PurposeInClosedSet ==
    \A k \in 1..Len(leave_histories) : leave_histories[k].purpose \in LeaveType

\* C8: a successful apply_for_leave followed at once by cancel_leaves for the
\* same employee and dates leaves the log with the size it had before the two.
C8_RoundTripKeepsSize ==
    trip.stage = "cancelled" => Len(leave_histories) = trip.size_before

\* C8, amended: the same, when before the two calls the log held no record of
\* that employee on any of those days and cancel_leaves did not turn the
\* dates down as not in the future.
C8_RoundTripKeepsSizeOfFreshDates ==
    (/\ trip.stage = "cancelled"
     /\ trip.found_before = 0
     /\ result.kind # "invalid_date")
    => Len(leave_histories) = trip.size_before

\* the run of days was granted and then cancelled
C8_Witness ==
    /\ trip.stage = "cancelled"
    /\ trip.found_before = 0
    /\ Len(trip.leave_dates) = BulkDays
    /\ result.op = "cancel_leaves"
    /\ result.kind = "cancelled"

C9_Step(name) ==
    register_employee(name)
    => /\ Len(employees') = Len(employees) + 1
       /\ SubSeq(employees', 1, Len(employees)) = employees
       /\ \E i \in 1..Len(employees) :
              /\ \A j \in 1..Len(employees) : int(employees[j].id) <= int(employees[i].id)
              /\ int(employees'[Len(employees')].id) = int(employees[i].id) + 1
       /\ employees'[Len(employees')].name = name
       /\ employees'[Len(employees')].balance = 20
       /\ result'.kind = "registered"
       /\ UNCHANGED leave_histories

\* C9: register_employee appends exactly one employee, whose identifier is
\* one more than the greatest identifier of the registry, with the given name
\* and balance 20; the earlier employees and the log are unchanged.
C9_RegisterEffect ==
    [][\A name \in Names : C9_Step(name)]_vars

\* an employee with the empty name was registered as 0005
C9_Witness ==
    /\ result.op = "register_employee"
    /\ employees[Len(employees)].id = Id0005
    /\ employees[Len(employees)].name = ""

\* C10: the identifiers of the registry are pairwise distinct, and no step
\* removes an employee or changes an employee's identifier.
C10_IdsDistinctAndStable ==
    /\ \A i, j \in 1..Len(employees) : employees[i].id = employees[j].id => i = j
    /\ [][/\ \A i, j \in 1..Len(employees') :
                 employees'[i].id = employees'[j].id => i = j
          /\ Len(employees') >= Len(employees)
          /\ \A i \in 1..Len(employees) : employees'[i].id = employees[i].id]_vars

\* a registered employee was granted leave, after which a cancellation ran
C10_Witness ==
    /\ Len(employees) > Len(SeedEmployees)
    /\ Balance(employees[Len(employees)].id) < Entitlement
    /\ result.op = "cancel_leaves"

\* the step is a call of cancel_leaves
CancelStep == result'.op = "cancel_leaves" /\ now' = now

\* C11: cancel_leaves never changes the registry, whether it removes records
\* or fails: every employee's id, name and balance stay as they were.
C11_CancelKeepsRegistry ==
    [][CancelStep => employees' = employees]_vars

\* records were removed for an employee whose balance stays below the
\* entitlement
C11_Witness ==
    /\ result.op = "cancel_leaves"
    /\ result.kind = "cancelled"
    /\ Balance(Id0001) < Entitlement
    /\ RecordsOf(Id0001) = 4

\* every thread has returned from its tool call
AllDone == \A t \in Threads : threads[t].pc = "done"

\* the lists after one call served alone
After(state, call) ==
    IF call.op = "apply_for_leave"
    THEN LET out == Apply(state.employees, state.leave_histories, now,
                          call.employee_id, call.leave_dates, call.purpose)
         IN  [employees |-> out.employees, leave_histories |-> out.leave_histories]
    ELSE [employees |-> state.employees,
          leave_histories |-> Cancel(state.leave_histories, now,
                                     call.employee_id, call.leave_dates).leave_histories]

\* the lists after the threads' calls served one after another, in this order
RECURSIVE Serial(_, _, _)
Serial(state, order, i) ==
    IF i > MaxThreads THEN state
    ELSE Serial(After(state, threads[order[i]].call), order, i + 1)

SerialOutcomes ==
    {Serial([employees |-> Served(applications).employees,
             leave_histories |-> Served(applications).leave_histories], order, 1) :
        order \in Permutations(Threads)}

\* the records the threads' apply_for_leave calls have appended
RECURSIVE Appended(_)
Appended(i) ==
    IF i = 0 THEN 0
    ELSE Appended(i - 1)
         + (IF threads[i].call.op = "apply_for_leave" THEN threads[i].k - 1 ELSE 0)

\* the days the threads' calls have taken off the balances
RECURSIVE Deducted(_)
Deducted(i) ==
    IF i = 0 THEN 0
    ELSE Deducted(i - 1)
         + (Served(applications).employees[i].balance - employees[i].balance)

\* C12: calls served at the same time behave as if serialized: no balance
\* goes negative, and once both calls have returned the registry and the log
\* are those of one of the serial orders, the balances having gone down by
\* the number of records appended.
C12_ConcurrentCallsSerialized ==
    (\A t \in Threads : threads[t].pc # "idle") =>
        /\ \A i \in 1..Len(employees) : employees[i].balance >= 0
        /\ AllDone =>
              /\ [employees |-> employees, leave_histories |-> leave_histories]
                     \in SerialOutcomes
              /\ Deducted(Len(employees)) = Appended(MaxThreads)

\* C13: get_leave_histories leaves the registry and the log as they were, and
\* for an id that matches no registered employee it ends in a not-found
\* outcome reported to the caller, not in an exception.
C13_UnknownEmployeeIsNotFound ==
    [][\A employee_id \in Lookups :
           get_leave_histories(employee_id) =>
               /\ UNCHANGED <<employees, leave_histories>>
               /\ ~Registered(employee_id) => result'.kind = "not_found"]_vars

\* C14: in every reachable state the log holds at most 20 records carrying
\* any one employee's id.
C14_AtMostEntitlementRecords ==
    \A i \in 1..Len(employees) : RecordsOf(employees[i].id) <= Entitlement

\* the record is of this employee and on the calendar day of one of the dates
Matching(history, employee_id, leave_dates) ==
    /\ history.employee_id = employee_id
    /\ \E i \in 1..Len(leave_dates) : history.leave_date = Ymd(leave_dates[i].day)

\* C15: after a successful cancel_leaves(employee, dates) the log is the
\* former log without the records of that employee on the canonical form of
\* any of the dates: all of those are gone, duplicates included, and every
\* other record remains, once per occurrence and in the former order.
C15_CancelRemovesExactlyMatching ==
    [][\A c \in Cancellations :
           (/\ CancelStep
            /\ result'.kind = "cancelled"
            /\ cancel_leaves(c[1], c[2]))
           => leave_histories' =
                  SelectSeq(leave_histories,
                            LAMBDA history : ~Matching(history, c[1], c[2]))]_vars

\* 0001's record for a day was cancelled while another employee's record for
\* the same day stays in the log
C15_Witness ==
    /\ result.op = "cancel_leaves"
    /\ result.kind = "cancelled"
    /\ trip.stage = "cancelled"
    /\ trip.employee_id = Id0001
    /\ trip.leave_dates = <<Midday>>
    /\ \E k \in 1..Len(leave_histories) : Matching(leave_histories[k], Id0005, <<Midday>>)
    /\ ~\E k \in 1..Len(leave_histories) : Matching(leave_histories[k], Id0001, <<Midday>>)

\* every date text reads as a date
AllParse(leave_dates) == \A i \in 1..Len(leave_dates) : ~ParseRaises(leave_dates[i])

\* the canonical (date-only) form of the text lies a whole day or more after now
CanonicalFuture(text) == text.day * TicksPerDay >= now + TicksPerDay

\* C16: a cancel_leaves call that fails leaves the registry and the log as
\* they were: when some normalized date is not a future date the call ends
\* with the invalid-date result and nothing is removed, even if other dates
\* match records; when all dates are future and no record matches, it ends
\* with the no-leave-taken result and nothing is removed.
C16_FailedCancelChangesNothing ==
    /\ [][(CancelStep /\ result'.kind # "cancelled")
             => UNCHANGED <<employees, leave_histories>>]_vars
    /\ [](\A c \in Cancellations :
              /\ (/\ AllParse(c[2])
                  /\ \E i \in 1..Len(c[2]) : ~CanonicalFuture(c[2][i]))
                 => ~ENABLED (cancel_leaves(c[1], c[2]) /\ result'.kind # "invalid_date")
              /\ (/\ AllParse(c[2])
                  /\ \A i \in 1..Len(c[2]) : CanonicalFuture(c[2][i])
                  /\ ~\E k \in 1..Len(leave_histories) :
                         Matching(leave_histories[k], c[1], c[2]))
                 => ~ENABLED (cancel_leaves(c[1], c[2]) /\ result'.kind # "no_leave"))

\* a cancellation was rejected for its past date while its other date
\* matches a record of the employee
C16_Witness ==
    /\ result.op = "cancel_leaves"
    /\ result.kind = "invalid_date"
    /\ result.date = PastDay
    /\ \E k \in 1..Len(leave_histories) : Matching(leave_histories[k], Id0001, <<Midday>>)

\* the instant the text denotes lies a whole day or more after now
WholeDayAhead(text) ==
    text.day * TicksPerDay + (IF text.fmt = "ymd" THEN 0 ELSE text.tod)
        >= now + TicksPerDay

\* C17: for every clock time and every date text is_valid_leave_date returns
\* (it does not raise): false when the text does not parse, and otherwise
\* true exactly when the parsed date is after today by a whole day or more,
\* so that a date-time later on the current day is not a future date.
C17_ValidIffWholeDayAhead ==
    (result.op = "is_valid_leave_date" /\ result.kind # "called") =>
        /\ result.kind = "returned"
        /\ result.value = (result.text.fmt # "junk" /\ WholeDayAhead(result.text))

\* C18: in every reachable state the employee_id of every record of the log
\* is the id of some employee in the registry.
C18_RecordsOfRegisteredEmployees ==
    \A k \in 1..Len(leave_histories) : Registered(leave_histories[k].employee_id)

\* the log holds a record of an employee registered after startup
C18_Witness ==
    /\ Registered(Id0005)
    /\ RecordsOf(Id0005) > 0
    /\ RecordsOf(Id0001) > 4

\* C19: for every employee, 20 minus the balance is the number of dates of
\* all the employee's successful apply_for_leave calls since startup or
\* registration, whatever was cancelled since; so a balance never increases,
\* and an employee whose balance is 0 never again applies successfully for
\* one or more dates.
C19_BalanceIsEntitlementLessGranted ==
    /\ [](/\ Len(granted) = Len(employees)
          /\ \A i \in 1..Len(employees) :
                 Entitlement - employees[i].balance = granted[i])
    /\ [][\A i \in 1..Len(employees) :
              /\ employees'[i].balance <= employees[i].balance
              /\ granted'[i] > granted[i] => employees[i].balance > 0]_vars

\* with every day granted and every record of the applications cancelled,
\* a further application is refused
C19_Witness ==
    /\ result.op = "apply_for_leave"
    /\ result.kind = "insufficient"
    /\ result.balance = 0
    /\ granted[1] = Entitlement
    /\ RecordsOf(Id0001) = 4

====
